---- MODULE Spec2Model ----
(***************************************************************************)
(* pint-convert (src/pint/pint_convert.py): main() converts the input      *)
(* quantity, optionally replaces the scales of the measured constants in   *)
(* the unit registry by uncertain values (_define_constants), extracts the *)
(* number of uncertainty digits from the formatted magnitude, clamps the   *)
(* requested digit count and prints.                                       *)
(*                                                                         *)
(* An uncertain value is a nominal value and a linear combination of       *)
(* primitive variables <<g, i>>: the i-th variable of group g.  grpMat[g]  *)
(* is the correlation matrix of group g scaled by 10^5 (ufloat makes a     *)
(* group of one variable, correlated_values_norm a group of N variables    *)
(* with the matrix it is given).  Sigmas are kept as the integer mantissa  *)
(* of the declared uncertainty.  The field var tells whether the value is  *)
(* an instance of the class of the values ufloat makes; the result of an   *)
(* operation on uncertain values need not be one.                          *)
(***************************************************************************)
EXTENDS Integers, Sequences, FiniteSets, TLC

\* ------------------------------------------------------------------ bounds
MaxPrecUnc == 2
MaxLen == 3
MaxNom == 1
MaxInSigma == 1

\* --------------------------------------------------------------- constants
\* SetKeys with the keys of m_u and m_e exchanged
SetKeys_swapped ==
  <<"R_inf", "g_e", "m_e", "m_u", "m_p", "m_n", "gravitational_constant",
    "d_220", "K_alpha_Cu_d_220", "K_alpha_Mo_d_220", "K_alpha_W_d_220">>

\* the keys in the order of the _set calls, lines 71-107
SetKeys ==
  <<"R_inf", "g_e", "m_u", "m_e", "m_p", "m_n", "gravitational_constant",
    "d_220", "K_alpha_Cu_d_220", "K_alpha_Mo_d_220", "K_alpha_W_d_220">>

\* the keys read into R_i, g_e, m_u, m_e, m_p, m_n, lines 36-41
ReadKeys == <<"R_inf", "g_e", "m_u", "m_e", "m_p", "m_n">>

\* ArgOrder with g_e and m_u exchanged in the argument list
ArgOrder_swapped == <<1, 3, 2, 4, 5, 6>>

\* the order in which the six locals are passed to correlated_values_norm
\* and unpacked from its result, lines 56-58
ArgOrder == <<1, 2, 3, 4, 5, 6>>

\* the measured constants of the default registry that the program touches
RegistryKeys ==
  <<"R_inf", "g_e", "m_u", "m_e", "m_p", "m_n", "gravitational_constant",
    "d_220", "K_alpha_Cu_d_220", "K_alpha_Mo_d_220", "K_alpha_W_d_220">>

Keys == {RegistryKeys[i] : i \in 1..Len(RegistryKeys)}

\* mantissa of the declared standard uncertainty, lines 36-41, 82-106
Sigma(key) ==
  CASE key = "R_inf" -> 21
    [] key = "g_e" -> 35
    [] key = "m_u" -> 50
    [] key = "m_e" -> 28
    [] key = "m_p" -> 51
    [] key = "m_n" -> 95
    [] key = "gravitational_constant" -> 15
    [] key = "d_220" -> 32
    [] key = "K_alpha_Cu_d_220" -> 22
    [] key = "K_alpha_Mo_d_220" -> 19
    [] key = "K_alpha_W_d_220" -> 98

\* CorrTable with two digits of the m_p row exchanged
CorrTable_typo ==
  << <<100000,   -206,    369,    436,    194,    233>>,
     <<  -206, 100000,  99029,  99490,  97560,  52445>>,
     <<   369,  99029, 100000,  99536,  98516,  52959>>,
     <<   436,  99490,  99536, 100000,  98058,  52714>>,
     <<   194,  97560,  98516,  98085, 100000,  51521>>,
     <<   233,  52445,  52959,  52714,  51521, 100000>> >>

\* the correlation table of lines 45-52, entries times 10^5
CorrTable ==
  << <<100000,   -206,    369,    436,    194,    233>>,
     <<  -206, 100000,  99029,  99490,  97560,  52445>>,
     <<   369,  99029, 100000,  99536,  98516,  52959>>,
     <<   436,  99490,  99536, 100000,  98058,  52714>>,
     <<   194,  97560,  98516,  98058, 100000,  51521>>,
     <<   233,  52445,  52959,  52714,  51521, 100000>> >>

\* the 1x1 matrix of a variable made by ufloat
UnitMat == << <<100000>> >>

NoMatrix == << >>
\* Python's None for the local unc; an int n is <<n>>
None == << >>
NoError == "none"
NoText == <<"-">>
GFmt == "g"
USFmt == "uS"

\* ------------------------------------------------------------------ values
NoCoef == [s \in {} |-> 0]

Float(n) == [kind |-> "float", n |-> n, c |-> NoCoef, var |-> FALSE]


\* ufloat(nominal, std_dev): a new variable, the only one of group g
ufloat(nom, s, g) ==
  [kind |-> "ufloat", n |-> nom.n, c |-> (<<g, 1>> :> s), var |-> TRUE]

Coef(v, s) == IF s \in DOMAIN v.c THEN v.c[s] ELSE 0

\* a * b with first-order propagation: d(ab) = b da + a db
Mul(a, b) ==
  IF a.kind = "float" /\ b.kind = "float"
  THEN Float(a.n * b.n)
  ELSE [kind |-> "ufloat", n |-> a.n * b.n,
        c |-> [s \in (DOMAIN a.c) \cup (DOMAIN b.c) |->
                 b.n * Coef(a, s) + a.n * Coef(b, s)],
        var |-> FALSE]

StdZero(v) == \A s \in DOMAIN v.c : v.c[s] = 0

Max(a, b) == IF a >= b THEN a ELSE b
Min(a, b) == IF a <= b THEN a ELSE b

\* ------------------------------------------------- formatting, lines 204-206
Digits == {"0", "5"}
Chars == Digits \cup {".", ")"}

RECURSIVE SeqsUpTo(_)
SeqsUpTo(n) ==
  IF n = 0 THEN {<< >>}
  ELSE LET S == SeqsUpTo(n - 1)
       IN S \cup {Append(t, ch) : t \in {u \in S : Len(u) = n - 1}, ch \in Chars}

\* the text a formatted uncertain value shows after "+/-": a decimal
\* number, closed by ")" when a common exponent follows
WellFormed(t) ==
  /\ Len(t) >= 1
  /\ t[1] \in Digits
  /\ Cardinality({i \in 1..Len(t) : t[i] = "."}) <= 1
  /\ \A i \in 1..Len(t) : t[i] = ")" => i = Len(t)
  /\ \A i \in 1..Len(t) : t[i] = "." => (i < Len(t) /\ t[i + 1] \in Digits)

Texts == {t \in SeqsUpTo(MaxLen) : WellFormed(t)}

\* "{:.<prec>g}".format(num): an exactly zero uncertainty is shown as "0"
UncTexts(num) == IF StdZero(num) THEN {<<"0">>} ELSE Texts

\* the format specification ".<prec>g" is rejected for a negative prec
FormatRaises(prec) == prec < 0

RECURSIVE DropWhile(_, _)
DropWhile(t, S) ==
  IF t = << >> \/ Head(t) \notin S THEN t ELSE DropWhile(Tail(t), S)

RECURSIVE TakeWhile(_, _)
TakeWhile(t, S) ==
  IF t = << >> \/ Head(t) \notin S THEN << >>
  ELSE <<Head(t)>> \o TakeWhile(Tail(t), S)

\* re.search(r"\+/-[0.]*([\d.]*)", full).group(1), line 205
Group1(t) == TakeWhile(DropWhile(t, {"0", "."}), Digits \cup {"."})

\* len(unc.replace(".", "")), line 206
DigitCount(t) == Cardinality({i \in 1..Len(Group1(t)) : Group1(t)[i] # "."})

\* ------------------------------------------------------------------- state
VARIABLES
  HAS_UNCERTAINTIES, \* pint.compat.HAS_UNCERTAINTIES
  hasNumpy,          \* uncertainties.correlated_values_norm exists
  pc,                \* position of main
  err,               \* the exception that ended main, or NoError
  args,              \* argparse result
  scale,             \* ureg._units[key].converter.scale
  cache,             \* the registry's root-units cache: key -> factor
  cacheBuilds,       \* number of _build_cache calls on the registry
  nsets,             \* number of _set calls per key
  grpMat,            \* correlation matrix of each group of variables
  q, nq,             \* the input quantity and the converted one
  unc, prec_unc, fmt,\* locals of main
  full,              \* the uncertainty text of line 204, or NoText
  out,               \* what line 221 printed, or NoOutput
  dcpc,              \* position of _define_constants
  vals,              \* its locals R_i, g_e, m_u, m_e, m_p, m_n
  corr,              \* its local corr, or NoMatrix
  k                  \* index of its next _set call

vars == <<HAS_UNCERTAINTIES, hasNumpy, pc, err, args, scale, cache,
          cacheBuilds, nsets, grpMat, q, nq, unc, prec_unc, fmt, full, out,
          dcpc, vals, corr, k>>

envVars == <<HAS_UNCERTAINTIES, hasNumpy>>
regVars == <<scale, cache, cacheBuilds, nsets>>
dcVars == <<dcpc, vals, corr, k>>
mainVars == <<args, q, nq, unc, prec_unc, fmt, full, out>>

\* the scale the default registry holds for a constant: a plain number
InitScale(key) ==
  Float(CHOOSE i \in 1..Len(RegistryKeys) : RegistryKeys[i] = key)

NoArgs == [unc |-> FALSE, corr |-> TRUE, prec_unc |-> 2, prec |-> 12]
NoQuantity == [m |-> Float(0), u |-> "none"]
NoOutput == [fmt |-> "none", m |-> Float(0), digits |-> 0]

Init ==
  /\ HAS_UNCERTAINTIES \in BOOLEAN
  /\ hasNumpy \in BOOLEAN
  /\ (hasNumpy => HAS_UNCERTAINTIES)
  /\ pc = "start"
  /\ err = NoError
  /\ args = NoArgs
  /\ scale = [key \in Keys |-> InitScale(key)]
  /\ cache = [key \in Keys |-> InitScale(key)]
  /\ cacheBuilds = 1
  /\ nsets = [key \in Keys |-> 0]
  /\ grpMat = << >>
  /\ q = NoQuantity
  /\ nq = NoQuantity
  /\ unc = None
  /\ prec_unc = 0
  /\ fmt = GFmt
  /\ full = NoText
  /\ out = NoOutput
  /\ dcpc = "idle"
  /\ vals = << >>
  /\ corr = NoMatrix
  /\ k = 0

\* -------------------------------------------------------------------- main
PrecUncs == (-1)..MaxPrecUnc
Precs == {-1, 12}
Deps == Keys \cup {"none"}

\* the magnitudes ureg.Quantity(u_from) can have: a plain number, or (with
\* the uncertainties package) a number written with "+/-"
Inputs ==
  {Float(n) : n \in 1..MaxNom}
    \cup (IF HAS_UNCERTAINTIES
          THEN {ufloat(Float(n), s, 1) : n \in 1..MaxNom, s \in 0..MaxInSigma}
          ELSE {})

\* lines 158-176: the arguments, the registry, q, and the locals
ParseArgs ==
  /\ pc = "start"
  /\ \E u \in BOOLEAN, c \in BOOLEAN, pu \in PrecUncs, p \in Precs,
        d \in Deps, m \in Inputs :
       /\ args' = [unc |-> u, corr |-> c, prec_unc |-> pu, prec |-> p]
       /\ q' = [m |-> m, u |-> d]
       /\ grpMat' = IF m.kind = "ufloat" THEN <<UnitMat>> ELSE << >>
  /\ unc' = None
  /\ prec_unc' = 0
  /\ fmt' = GFmt
  /\ pc' = "convert"
  /\ UNCHANGED <<envVars, regVars, dcVars, err, nq, full, out>>

\* the factor from a unit to its base units, as the registry knows it
Factor(u) ==
  IF u = "none" THEN Float(1)
  ELSE IF u \in DOMAIN cache THEN cache[u] ELSE scale[u]

\* a conversion between equal units returns the magnitude as it is
Converted(x) ==
  IF x.u = "none" THEN x.m ELSE Mul(x.m, Factor(x.u))

\* lines 181-184: nq = q.to(u_to) or q.to_base_units()
Convert ==
  /\ pc = "convert"
  /\ nq' = [m |-> Converted(q), u |-> "base"]
  /\ pc' = "checkunc"
  /\ UNCHANGED <<envVars, regVars, dcVars, err, args, q, grpMat, unc,
                 prec_unc, fmt, full, out>>

\* lines 190-196 and 211-212
CheckUnc ==
  /\ pc = "checkunc"
  /\ IF args.unc
     THEN IF ~HAS_UNCERTAINTIES
          THEN /\ pc' = "failed"
               /\ err' = "HAS_UNCERTAINTIES"
               /\ UNCHANGED <<dcpc, prec_unc>>
          ELSE /\ pc' = "define"
               /\ dcpc' = "entry"
               /\ UNCHANGED <<err, prec_unc>>
     ELSE /\ prec_unc' = 0
          /\ pc' = "choose"
          /\ UNCHANGED <<err, dcpc>>
  /\ UNCHANGED <<envVars, regVars, vals, corr, k, args, q, nq, grpMat, unc,
                 fmt, full, out>>

\* the outcomes of isinstance(num, type(ufloat(1, 0))), line 203: false for
\* a plain number, true for a value ufloat made, either for an uncertain
\* value that an operation produced
IsInstance(num) ==
  IF num.kind = "float" THEN {FALSE}
  ELSE IF num.var THEN {TRUE} ELSE BOOLEAN

\* lines 198-208: the digits of the formatted uncertainty; an exception in
\* the block is suppressed and leaves unc as it was
Extract ==
  /\ pc = "extract"
  /\ prec_unc' = args.prec_unc
  /\ \E isinst \in IsInstance(nq.m) :
       IF isinst
       THEN IF FormatRaises(args.prec)
            THEN UNCHANGED <<unc, full>>
            ELSE \E t \in UncTexts(nq.m) :
                   /\ full' = t
                   /\ unc' = <<DigitCount(t)>>
       ELSE /\ unc' = <<0>>
            /\ UNCHANGED full
  /\ pc' = "clamp"
  /\ UNCHANGED <<envVars, regVars, dcVars, err, args, q, nq, grpMat, fmt, out>>

\* ClampValue without the min
ClampValue_nomin(p, u) == Max(0, p)

\* max(0, min(prec_unc, unc)), line 210
ClampValue(p, u) == Max(0, Min(p, u))

\* line 210: min() of an int and None raises TypeError
Clamp ==
  /\ pc = "clamp"
  /\ IF unc = None
     THEN /\ pc' = "failed"
          /\ err' = "TypeError"
          /\ UNCHANGED prec_unc
     ELSE /\ prec_unc' = ClampValue(prec_unc, unc[1])
          /\ pc' = "choose"
          /\ UNCHANGED err
  /\ UNCHANGED <<envVars, regVars, dcVars, args, q, nq, grpMat, unc, fmt,
                 full, out>>

\* Strip leaving the magnitude as it is
Strip_keep(x) == x

\* nq.magnitude.n * nq.units under suppress(Exception), lines 217-218:
\* a plain number has no attribute n and nq stays as it is
Strip(x) == IF x.m.kind = "ufloat" THEN [x EXCEPT !.m = Float(x.m.n)] ELSE x

\* lines 214-218
ChooseFmt ==
  /\ pc = "choose"
  /\ IF prec_unc > 0
     THEN fmt' = USFmt /\ UNCHANGED nq
     ELSE nq' = Strip(nq) /\ UNCHANGED fmt
  /\ pc' = "print"
  /\ UNCHANGED <<envVars, regVars, dcVars, err, args, q, grpMat, unc,
                 prec_unc, full, out>>

\* the final format raises for a negative prec, and for the uncertainty
\* format applied to a plain number
PrintRaises ==
  \/ (fmt = GFmt /\ FormatRaises(args.prec))
  \/ (fmt = USFmt /\ nq.m.kind # "ufloat")

\* lines 220-221
PrintResult ==
  /\ pc = "print"
  /\ IF PrintRaises
     THEN /\ pc' = "failed"
          /\ err' = "ValueError"
          /\ UNCHANGED out
     ELSE /\ out' = [fmt |-> fmt, m |-> nq.m,
                     digits |-> IF fmt = USFmt THEN prec_unc ELSE args.prec]
          /\ pc' = "printed"
          /\ UNCHANGED err
  /\ UNCHANGED <<envVars, regVars, dcVars, args, q, nq, grpMat, unc,
                 prec_unc, fmt, full>>

\* ------------------------------------------------------- _define_constants
\* object.__setattr__(ureg._units[key].converter, "scale", value), lines 23-25
_set(reg, key, value) == [reg EXCEPT ![key] = value]

\* lines 36-41: the six (scale, sigma) tuples
DC_Read ==
  /\ pc = "define" /\ dcpc = "entry"
  /\ vals' = [i \in 1..Len(ReadKeys) |->
                <<scale[ReadKeys[i]], Sigma(ReadKeys[i])>>]
  /\ dcpc' = IF args.corr THEN "mkcorr" ELSE "indep"
  /\ UNCHANGED <<envVars, regVars, mainVars, pc, err, grpMat, corr, k>>

\* lines 42-52: the correlation matrix, built only when use_corr
DC_MakeCorr ==
  /\ pc = "define" /\ dcpc = "mkcorr"
  /\ corr' = CorrTable
  /\ dcpc' = "call"
  /\ UNCHANGED <<envVars, regVars, mainVars, pc, err, grpMat, vals, k>>

\* uncertainties.correlated_values_norm(values_with_std_dev, corr): the
\* i-th result keeps the i-th nominal value and is sigma_i times the i-th
\* variable of a new group g whose correlation matrix is the given one
correlated_values_norm(tuples, g) ==
  [i \in 1..Len(tuples) |->
     [kind |-> "ufloat", n |-> tuples[i][1].n,
      c |-> (<<g, i>> :> tuples[i][2]), var |-> FALSE]]

\* IndependentValues with m_e built from the tuple of m_u
IndependentValues_copied(tuples, g) ==
  [i \in 1..Len(tuples) |->
     IF i = 4 THEN ufloat(tuples[3][1], tuples[3][2], g + i)
     ELSE ufloat(tuples[i][1], tuples[i][2], g + i)]

\* the six independent values of lines 64-69, each a group of its own
IndependentValues(tuples, g) ==
  [i \in 1..Len(tuples) |-> ufloat(tuples[i][1], tuples[i][2], g + i)]

\* DC_Correlated falling back to independent values when the call fails
DC_Correlated_fallback ==
  /\ pc = "define" /\ dcpc = "call"
  /\ IF hasNumpy
     THEN /\ vals' = correlated_values_norm(
                       [i \in 1..Len(ArgOrder) |-> vals[ArgOrder[i]]],
                       Len(grpMat) + 1)
          /\ grpMat' = Append(grpMat, corr)
     ELSE /\ vals' = IndependentValues(vals, Len(grpMat))
          /\ grpMat' = grpMat \o [i \in 1..Len(vals) |-> UnitMat]
  /\ dcpc' = "set"
  /\ k' = 1
  /\ UNCHANGED <<envVars, regVars, mainVars, pc, err, corr>>

\* DC_Correlated with the call made after the first _set
DC_Correlated_late ==
  /\ pc = "define" /\ dcpc = "call"
  /\ IF hasNumpy
     THEN /\ vals' = correlated_values_norm(
                       [i \in 1..Len(ArgOrder) |-> vals[ArgOrder[i]]],
                       Len(grpMat) + 1)
          /\ grpMat' = Append(grpMat, corr)
          /\ dcpc' = "set"
          /\ k' = 1
          /\ UNCHANGED <<pc, err, regVars>>
     ELSE /\ scale' = _set(scale, SetKeys[1],
                           ufloat(vals[1][1], vals[1][2], Len(grpMat) + 1))
          /\ nsets' = [nsets EXCEPT ![SetKeys[1]] = @ + 1]
          /\ grpMat' = Append(grpMat, UnitMat)
          /\ dcpc' = "raised"
          /\ pc' = "failed"
          /\ err' = "Correlation"
          /\ UNCHANGED <<vals, k, cache, cacheBuilds>>
  /\ UNCHANGED <<envVars, mainVars, corr>>

\* lines 53-62: the correlated values, or AttributeError turned into
\* Exception("Correlation cannot be calculated!") which leaves the function
DC_Correlated ==
  /\ pc = "define" /\ dcpc = "call"
  /\ IF hasNumpy
     THEN /\ vals' = correlated_values_norm(
                       [i \in 1..Len(ArgOrder) |-> vals[ArgOrder[i]]],
                       Len(grpMat) + 1)
          /\ grpMat' = Append(grpMat, corr)
          /\ dcpc' = "set"
          /\ k' = 1
          /\ UNCHANGED <<pc, err>>
     ELSE /\ dcpc' = "raised"
          /\ pc' = "failed"
          /\ err' = "Correlation"
          /\ UNCHANGED <<vals, grpMat, k>>
  /\ UNCHANGED <<envVars, regVars, mainVars, corr>>

\* lines 63-69: ufloat(*R_i) ... ufloat(*m_n)
DC_Independent ==
  /\ pc = "define" /\ dcpc = "indep"
  /\ vals' = IndependentValues(vals, Len(grpMat))
  /\ grpMat' = grpMat \o [i \in 1..Len(vals) |-> UnitMat]
  /\ dcpc' = "set"
  /\ k' = 1
  /\ UNCHANGED <<envVars, regVars, mainVars, pc, err, corr>>

\* lines 71-107: the k-th _set call; the first six install the locals, the
\* last five a ufloat of the constant's own scale and sigma
DC_Set ==
  /\ pc = "define" /\ dcpc = "set"
  /\ LET key == SetKeys[k]
     IN IF k <= Len(ReadKeys)
        THEN /\ scale' = _set(scale, key, vals[k])
             /\ UNCHANGED grpMat
        ELSE /\ scale' = _set(scale, key,
                              ufloat(scale[key], Sigma(key), Len(grpMat) + 1))
             /\ grpMat' = Append(grpMat, UnitMat)
  /\ nsets' = [nsets EXCEPT ![SetKeys[k]] = @ + 1]
  /\ IF k = Len(SetKeys)
     THEN dcpc' = "clear" /\ UNCHANGED k
     ELSE k' = k + 1 /\ UNCHANGED dcpc
  /\ UNCHANGED <<envVars, mainVars, pc, err, cache, cacheBuilds, vals, corr>>

\* line 109: ureg._root_units_cache = {}
DC_ClearCache ==
  /\ pc = "define" /\ dcpc = "clear"
  /\ cache' = NoCoef
  /\ dcpc' = "build"
  /\ UNCHANGED <<envVars, mainVars, pc, err, scale, cacheBuilds, nsets,
                 grpMat, vals, corr, k>>

\* line 110: ureg._build_cache(), then the return to main, line 196
DC_BuildCache ==
  /\ pc = "define" /\ dcpc = "build"
  /\ cache' = [key \in Keys |-> scale[key]]
  /\ cacheBuilds' = cacheBuilds + 1
  /\ dcpc' = "returned"
  /\ pc' = "extract"
  /\ UNCHANGED <<envVars, mainVars, err, scale, nsets, grpMat, vals, corr, k>>

Next ==
  \/ ParseArgs
  \/ Convert
  \/ CheckUnc
  \/ DC_Read
  \/ DC_MakeCorr
  \/ DC_Correlated
  \/ DC_Independent
  \/ DC_Set
  \/ DC_ClearCache
  \/ DC_BuildCache
  \/ Extract
  \/ Clamp
  \/ ChooseFmt
  \/ PrintResult

Spec == Init /\ [][Next]_vars

\* ------------------------------------------------------------- properties
SixKeys == {ReadKeys[i] : i \in 1..Len(ReadKeys)}

RECURSIVE SumTerms(_, _, _)
SumTerms(P, a, b) ==
  IF P = {} THEN 0
  ELSE LET p == CHOOSE x \in P : TRUE
       IN a.c[p[1]] * b.c[p[2]] * grpMat[p[1][1]][p[1][2]][p[2][2]]
            + SumTerms(P \ {p}, a, b)

\* covariance of two values, times 10^5: variables of different groups are
\* independent, those of one group correlated by the group's matrix
Cov(a, b) ==
  SumTerms({p \in (DOMAIN a.c) \X (DOMAIN b.c) : p[1][1] = p[2][1]}, a, b)

\* the digits line 205-206 extract from the formatted uncertainty
Extractable == IF full = NoText THEN 0 ELSE DigitCount(full)

InitialRegistry == [key \in Keys |-> InitScale(key)]

\* C1: with -U the measured constants are substituted into the registry
\* before the conversion is evaluated, so whenever the conversion depends on
\* a measured constant the magnitude handed to the formatter is uncertain.
C1_UncertainReachesFormatter ==
  (pc = "extract" /\ args.unc /\ q.u \in Keys) => nq.m.kind = "ufloat"

\* C2: for every requested --prec-unc and every outcome of the extraction
\* (uncertain, plain, or a suppressed exception) the clamp of line 210 does
\* not raise and leaves prec_unc = max(0, min(requested, extractable digits)).
C2_ClampCompletes ==
  /\ err # "TypeError"
  /\ (args.unc /\ pc \in {"choose", "print", "printed"})
       => prec_unc = Max(0, Min(args.prec_unc, Extractable))

\* C3: when the requested digit count is <= 0 or the converted value's
\* standard uncertainty is 0, lines 214-221 strip the uncertainty and print
\* the nominal value alone with the format ".{prec}g".
C3_NominalOnly ==
  [][/\ (pc = "choose" /\ pc' = "print"
           /\ (args.prec_unc <= 0 \/ StdZero(nq.m)))
        => (fmt' = GFmt /\ nq'.m = Float(nq.m.n))
     /\ (pc = "print" /\ pc' = "printed")
        => (/\ out'.fmt = fmt
            /\ out'.m = nq.m
            /\ (fmt = GFmt => out'.digits = args.prec))]_vars

C3_Witness ==
  /\ pc = "printed"
  /\ args.unc /\ args.prec_unc > 0
  /\ q.m.kind = "ufloat" /\ StdZero(q.m)
  /\ out.fmt = GFmt /\ out.m = Float(Converted(q).n)

\* C4: in independent mode no correlation matrix is built and no
\* decomposition is called; each of the six constants gets one variable of
\* its own with coefficient sigma, so its variance is sigma^2 and two
\* distinct constants share no variable and have covariance 0.
C4_Independent ==
  ~args.corr =>
    /\ corr = NoMatrix
    /\ dcpc \notin {"mkcorr", "call", "raised"}
    /\ dcpc = "returned" =>
         /\ \A key \in SixKeys :
              /\ \E s \in DOMAIN scale[key].c :
                   /\ DOMAIN scale[key].c = {s}
                   /\ grpMat[s[1]] = UnitMat
                   /\ scale[key].c[s] = Sigma(key)
              /\ Cov(scale[key], scale[key]) = Sigma(key) * Sigma(key) * 100000
         /\ \A a \in SixKeys, b \in SixKeys :
              a # b => /\ (DOMAIN scale[a].c) \cap (DOMAIN scale[b].c) = {}
                       /\ Cov(scale[a], scale[b]) = 0

C4_Witness == dcpc = "returned" /\ ~args.corr /\ corr = NoMatrix

\* C5: in correlated mode the six installed values have, for every pair
\* i, j, covariance sigma_i * sigma_j * corr[i][j] (so variance sigma_i^2),
\* with the constants in the order of the table's rows.
C5_Covariance ==
  (args.corr /\ dcpc = "returned") =>
    \A i \in 1..Len(ReadKeys), j \in 1..Len(ReadKeys) :
      Cov(scale[ReadKeys[i]], scale[ReadKeys[j]])
        = Sigma(ReadKeys[i]) * Sigma(ReadKeys[j]) * CorrTable[i][j]

C5_Witness ==
  /\ dcpc = "returned" /\ args.corr
  /\ Cov(scale["g_e"], scale["m_u"]) = 35 * 50 * 99029
  /\ Cov(scale["m_n"], scale["m_n"]) = 95 * 95 * 100000

\* C6: with correlation requested, a construction that cannot be carried
\* out ends _define_constants with an exception and never installs
\* independent values; a normal return means all six constants carry the
\* correlated values.
C6_NoFallback ==
  args.corr =>
    /\ dcpc \in {"set", "clear", "build", "returned"} =>
         /\ hasNumpy
         /\ \A i \in 1..Len(ReadKeys) :
              \E g \in 1..Len(grpMat) :
                /\ DOMAIN vals[i].c = {<<g, i>>}
                /\ grpMat[g] = CorrTable
    /\ dcpc = "returned" =>
         \A i \in 1..Len(ReadKeys) : scale[ReadKeys[i]] = vals[i]
    /\ (args.unc /\ HAS_UNCERTAINTIES /\ ~hasNumpy
          /\ pc \notin {"start", "convert", "checkunc", "define"})
         => (pc = "failed" /\ err = "Correlation" /\ dcpc = "raised")

C6_Witness ==
  /\ pc = "failed" /\ err = "Correlation" /\ args.corr /\ ~hasNumpy
  /\ \A key \in Keys : scale[key].kind = "float"

\* C7: the correlation matrix is 6x6, symmetric, with unit diagonal and
\* entries in [-1, 1], and is not modified once constructed.
C7_CorrMatrix ==
  /\ [](corr # NoMatrix =>
          /\ Len(corr) = 6
          /\ \A i \in 1..6 : Len(corr[i]) = 6 /\ corr[i][i] = 100000
          /\ \A i \in 1..6, j \in 1..6 :
               /\ corr[i][j] = corr[j][i]
               /\ corr[i][j] >= -100000 /\ corr[i][j] <= 100000)
  /\ [][corr # NoMatrix => corr' = corr]_vars

C7_Witness == corr # NoMatrix /\ dcpc = "returned" /\ pc = "printed"

\* C8: after a normal return, in either mode, each of the eleven constants
\* holds an uncertain scale whose nominal value is the scale the registry
\* held before the call, and each scale was written exactly once.
C8_NominalKept ==
  /\ \A key \in Keys : nsets[key] <= 1
  /\ dcpc = "returned" =>
       \A key \in Keys :
         /\ scale[key].kind = "ufloat"
         /\ scale[key].n = InitScale(key).n
         /\ nsets[key] = 1

C8_Witness ==
  /\ dcpc = "returned"
  /\ \A key \in Keys : nsets[key] = 1 /\ scale[key].kind = "ufloat"

\* C9: at the final print 0 <= prec_unc <= max(0, requested); prec_unc > 0
\* only with -U and an uncertain magnitude with at least one extractable
\* digit; the uncertainty format is never applied to a plain magnitude and
\* without -U the format is ".{prec}g".
C9_PrecUncSafe ==
  /\ pc \in {"print", "printed"} =>
       /\ 0 <= prec_unc /\ prec_unc <= Max(0, args.prec_unc)
       /\ prec_unc > 0 =>
            (args.unc /\ nq.m.kind = "ufloat" /\ Extractable >= 1)
       /\ fmt = USFmt => (prec_unc > 0 /\ nq.m.kind = "ufloat")
       /\ ~args.unc => fmt = GFmt
  /\ pc = "printed" =>
       /\ out.fmt = USFmt => out.m.kind = "ufloat"
       /\ ~args.unc => out.fmt = GFmt
  /\ (pc = "failed" /\ err = "ValueError") => fmt = GFmt

C9_Witness ==
  /\ pc = "printed" /\ out.fmt = USFmt
  /\ out.digits = 1 /\ args.prec_unc = 2 /\ Extractable = 1

\* C10: when the correlated construction fails, the exception leaves
\* _define_constants before any _set: no scale has changed and the cache
\* has been neither cleared nor rebuilt.
C10_NoPartialSubstitution ==
  dcpc = "raised" =>
    /\ scale = InitialRegistry
    /\ \A key \in Keys : nsets[key] = 0
    /\ cache = InitialRegistry
    /\ cacheBuilds = 1

C10_Witness ==
  /\ dcpc = "raised" /\ args.corr /\ args.unc
  /\ cache = InitialRegistry /\ scale = InitialRegistry

====
